---- MODULE Spec2Model ----
(***************************************************************************)
(* A model of shinobu8-core (src/shinobu8-core/src/lib.rs): the CHIP-8     *)
(* interpreter Emu, its memory Ram, the fetch/decode/execute cycle and the *)
(* driver operations load, key_down, quit, step and run.                   *)
(*                                                                         *)
(* Representation.  ram is the 4096-byte array kept sparsely: a function   *)
(* whose domain is the set of addresses written so far, every other        *)
(* address reading as the 0 that Ram::new stores.  display is the set of   *)
(* indices y*64+x of the cells that are true.  A panic (a failed assert!,  *)
(* an index out of range, an arithmetic overflow in a build with overflow  *)
(* checks) ends the thread that owns the Emu: ctl = "panicked".  Where two *)
(* builds of the crate differ (overflow checks on or off) both outcomes    *)
(* are possible steps of the model.                                        *)
(***************************************************************************)
EXTENDS Integers, Sequences, FiniteSets, TLC

VARIABLES
  \* the fields of Emu
  pc, sp, r_i, regs, stack, ram, keys, display, dt, st, steps, quit,
  \* where the thread that owns the Emu is: "idle" (in no call), "run_check"
  \* (run, about to read the flag), "run_step" (run, about to call step),
  \* "step_wait" / "run_wait" (inside Fx0A's loop, called from step / from
  \* run), "panicked"
  ctl,
  \* what the last call of step or run returned: "none", "ok", "err"
  result,
  \* history: the calls of step (by the driver or by run) that returned Ok
  okSteps,
  \* history: the steps run() completed while the flag was already set
  afterQuit,
  \* history: for each call not yet returned from, the pc and sp the call
  \* instruction was dispatched with
  calls,
  \* history: the last completed draw (empty before the first)
  lastDraw,
  \* history: the flag as it was when run() was last called: "none" (never
  \* called), "unset", "set"
  runAt

emu == <<pc, sp, r_i, regs, stack, ram, keys, display, dt, st>>
vars == <<pc, sp, r_i, regs, stack, ram, keys, display, dt, st, steps, quit,
          ctl, result, okSteps, afterQuit, calls, lastDraw, runAt>>

(***************************************************************************)
(* Program constants                                                       *)
(***************************************************************************)
SCREEN_WIDTH == 64
SCREEN_HEIGHT == 32
RAM_SIZE == 4096
START_ADDR == 512
NUM_REGS == 16
STACK_SIZE == 16
NUM_KEYS == 16

FONT_SET ==
  << 240, 144, 144, 144, 240,
      32,  96,  32,  32, 112,
     240,  16, 240, 128, 240,
     240,  16, 240,  16, 240,
     144, 144, 240,  16,  16,
     240, 128, 240,  16, 240,
     240, 128, 240, 144, 240,
     240,  16,  32,  64,  64,
     240, 144, 240, 144, 240,
     240, 144, 240,  16, 240,
     240, 144, 240, 144, 144,
     224, 144, 224, 144, 224,
     240, 128, 128, 128, 240,
     224, 144, 144, 144, 224,
     240, 128, 240, 128, 240,
     240, 128, 240, 128, 128 >>

(***************************************************************************)
(* Bounds of the model                                                     *)
(***************************************************************************)
\* the step counter is a u64; the driver stops calling step at this count
MaxSteps == 34
\* run() is not asked to go on (the flag stays unset) past this count
MaxRunSteps == 4

(***************************************************************************)
(* u8 / u16 arithmetic                                                     *)
(***************************************************************************)
RECURSIVE BitOp(_, _, _, _)
\* bitwise combination of the lowest n bits of a and b;
\* op: 1 = AND, 2 = OR, 3 = XOR
BitOp(op, a, b, n) ==
  IF n = 0 THEN 0
  ELSE LET x == a % 2
           y == b % 2
           bit == CASE op = 1 -> IF x = 1 /\ y = 1 THEN 1 ELSE 0
                    [] op = 2 -> IF x = 1 \/ y = 1 THEN 1 ELSE 0
                    [] OTHER  -> IF x # y THEN 1 ELSE 0
       IN bit + 2 * BitOp(op, a \div 2, b \div 2, n - 1)

BitAnd(a, b) == BitOp(1, a, b, 16)
BitOr(a, b) == BitOp(2, a, b, 16)
BitXor(a, b) == BitOp(3, a, b, 16)

\* u8::overflowing_add
OverflowingAdd(a, b) == [val |-> (a + b) % 256, over |-> a + b > 255]
\* u8::overflowing_sub
OverflowingSub(a, b) == [val |-> (a - b + 256) % 256, over |-> a < b]
\* u8 << 1 and u8 >> 1
Shl1(a) == (a * 2) % 256
Shr1(a) == a \div 2

(***************************************************************************)
(* Instruction                                                             *)
(***************************************************************************)
Decode(w) == << w \div 4096, (w \div 256) % 16, (w \div 16) % 16, w % 16 >>
Nnn(w) == w % 4096
Kk(w) == w % 256

(***************************************************************************)
(* Ram                                                                     *)
(***************************************************************************)
RamNew == [a \in {} |-> 0]

RamRead(m, addr) == IF addr \in DOMAIN m THEN m[addr] ELSE 0

RamStore(m, addr, data) ==
  [a \in (DOMAIN m) \cup {addr} |-> IF a = addr THEN data ELSE m[a]]

\* RamLoad without its second copy: the font is not installed
RamLoadNoFont(m, data) ==
  LET romAt == {START_ADDR + i - 1 : i \in 1..Len(data)}
  IN [a \in (DOMAIN m) \cup romAt |->
        IF a \in romAt THEN data[a - START_ADDR + 1] ELSE m[a]]

\* Ram::load: the ROM at START_ADDR.., then the font at 0..
RamLoad(m, data) ==
  LET romAt == {START_ADDR + i - 1 : i \in 1..Len(data)}
      withRom == [a \in (DOMAIN m) \cup romAt |->
                    IF a \in romAt THEN data[a - START_ADDR + 1] ELSE m[a]]
      fontAt == {i - 1 : i \in 1..Len(FONT_SET)}
  IN [a \in (DOMAIN withRom) \cup fontAt |->
        IF a \in fontAt THEN FONT_SET[a + 1] ELSE withRom[a]]

(***************************************************************************)
(* Emu: the interpreter state as a record, and the opcodes                 *)
(***************************************************************************)
\* Emu::default
EmuDefault ==
  [pc |-> START_ADDR, sp |-> 0, r_i |-> 0,
   regs |-> [i \in 0..NUM_REGS - 1 |-> 0],
   stack |-> [i \in 0..STACK_SIZE - 1 |-> 0],
   ram |-> RamNew,
   keys |-> [i \in 0..NUM_KEYS - 1 |-> FALSE],
   display |-> {},
   dt |-> 0, st |-> 0]

\* the outcome of (part of) a step: the state it leaves and how it ended:
\* "ok", "err" (Err returned), "panic", or "wait" (Fx0A spinning, no key)
Out(s, res) == [s |-> s, res |-> res]

Reg(s, i) == s.regs[i]

SetReg(s, i, v) == [s EXCEPT !.regs[i] = v]

JumpNext(s) == [s EXCEPT !.pc = s.pc + 2]

\* 00E0
ExecCls(s) == {Out([s EXCEPT !.display = {}], "ok")}

\* ExecRet with the two statements swapped: pc = stack[sp], then sp -= 1
ExecRetNoDecrement(s) ==
  IF s.sp = 0
    THEN {Out(s, "panic"), Out([s EXCEPT !.sp = 255], "panic")}
    ELSE IF s.sp >= STACK_SIZE
      THEN {Out(s, "panic")}
      ELSE {Out([s EXCEPT !.sp = s.sp - 1, !.pc = s.stack[s.sp]], "ok")}

\* 00EE: sp -= 1 (u8: panics at 0 with overflow checks, wraps to 255 and
\* then indexes stack[255] without), pc = stack[sp]
ExecRet(s) ==
  IF s.sp = 0
    THEN {Out(s, "panic"), Out([s EXCEPT !.sp = 255], "panic")}
    ELSE IF s.sp - 1 >= STACK_SIZE
      THEN {Out([s EXCEPT !.sp = s.sp - 1], "panic")}
      ELSE {Out([s EXCEPT !.sp = s.sp - 1, !.pc = s.stack[s.sp - 1]], "ok")}

\* 1nnn
ExecJump(s, w) == {Out([s EXCEPT !.pc = Nnn(w)], "ok")}

\* 2nnn: stack[sp] = pc, sp += 1, pc = nnn
ExecCall(s, w) ==
  IF s.sp >= STACK_SIZE
    THEN {Out(s, "panic")}
    ELSE {Out([s EXCEPT !.stack[s.sp] = s.pc, !.sp = s.sp + 1, !.pc = Nnn(w)],
              "ok")}

\* ExecSkipIf with the test inverted
ExecSkipIfNot(s, cond) == {Out(IF cond THEN s ELSE JumpNext(s), "ok")}

\* 3xkk, 4xkk, 5xy0, 9xy0, Ex9E, ExA1: jump_next when the condition holds
ExecSkipIf(s, cond) == {Out(IF cond THEN JumpNext(s) ELSE s, "ok")}

\* 6xkk
ExecLoadImm(s, x, w) == {Out(SetReg(s, x, Kk(w)), "ok")}

\* 7xkk: regs[x] += kk, a plain u8 addition: it wraps in a build without
\* overflow checks and panics in a build with them
ExecAddImm(s, x, w) ==
  IF Reg(s, x) + Kk(w) > 255
    THEN {Out(SetReg(s, x, (Reg(s, x) + Kk(w)) % 256), "ok"), Out(s, "panic")}
    ELSE {Out(SetReg(s, x, Reg(s, x) + Kk(w)), "ok")}

\* 8xy0
ExecMov(s, x, y) == {Out(SetReg(s, x, Reg(s, y)), "ok")}

\* 8xy1, 8xy2, 8xy3
ExecOr(s, x, y) == {Out(SetReg(s, x, BitOr(Reg(s, x), Reg(s, y))), "ok")}
ExecAnd(s, x, y) == {Out(SetReg(s, x, BitAnd(Reg(s, x), Reg(s, y))), "ok")}
ExecXor(s, x, y) == {Out(SetReg(s, x, BitXor(Reg(s, x), Reg(s, y))), "ok")}

\* 8xy4: the flag is stored first, the sum second
ExecAdd(s, x, y) ==
  LET r == OverflowingAdd(Reg(s, x), Reg(s, y))
      flagged == SetReg(s, 15, IF r.over THEN 1 ELSE 0)
  IN {Out(SetReg(flagged, x, r.val), "ok")}

\* Emu::sub: stores the flag in regs[0xF] and returns the difference
Sub(s, a, b) ==
  LET r == OverflowingSub(a, b)
  IN [s |-> SetReg(s, 15, IF r.over THEN 0 ELSE 1), val |-> r.val]

\* 8xy5: regs[x] = sub(Vx, Vy)
ExecSub(s, x, y) ==
  LET r == Sub(s, Reg(s, x), Reg(s, y))
  IN {Out(SetReg(r.s, x, r.val), "ok")}

\* 8xy7: regs[x] = sub(Vy, Vx)
ExecSubN(s, x, y) ==
  LET r == Sub(s, Reg(s, y), Reg(s, x))
  IN {Out(SetReg(r.s, x, r.val), "ok")}

\* 8xy6
ExecShr(s, x) ==
  LET flagged == SetReg(s, 15, IF BitAnd(1, Reg(s, x)) = 1 THEN 1 ELSE 0)
  IN {Out(SetReg(flagged, x, Shr1(Reg(flagged, x))), "ok")}

\* 8xyE: the test is (0b1000_0000 & Vx) == 1
ExecShl(s, x) ==
  LET flagged == SetReg(s, 15, IF BitAnd(128, Reg(s, x)) = 1 THEN 1 ELSE 0)
  IN {Out(SetReg(flagged, x, Shl1(Reg(flagged, x))), "ok")}

\* Annn
ExecLoadI(s, w) == {Out([s EXCEPT !.r_i = Nnn(w)], "ok")}

\* Bnnn
ExecJumpV0(s, w) == {Out([s EXCEPT !.pc = Nnn(w) + Reg(s, 0)], "ok")}

\* the bytes rand::random::<u8>() is taken to return
RandomBytes == {0, 1, 2, 5, 128, 255}

\* Cxkk
ExecRand(s, x, w) ==
  {Out(SetReg(s, x, BitAnd(rb, Kk(w))), "ok") : rb \in RandomBytes}

Pow2(n) == CASE n = 0 -> 1 [] n = 1 -> 2 [] n = 2 -> 4 [] n = 3 -> 8
             [] n = 4 -> 16 [] n = 5 -> 32 [] n = 6 -> 64 [] OTHER -> 128

\* DrawRow setting the cells (display[index] = true) instead of flipping them
DrawRowOr(acc, sprite, vx, y) ==
  LET cells == { (y * SCREEN_WIDTH) + ((vx + x_line) % SCREEN_WIDTH) :
                   x_line \in {c \in 0..7 : BitAnd(sprite, Pow2(7 - c)) # 0} }
  IN [display |-> acc.display \cup cells,
      collision |-> acc.collision \/ cells \cap acc.display # {}]

\* DrawRow with the column wrapped at the height of the screen
DrawRowWrapsAtHeight(acc, sprite, vx, y) ==
  LET cells == { (y * SCREEN_WIDTH) + ((vx + x_line) % SCREEN_HEIGHT) :
                   x_line \in {c \in 0..7 : BitAnd(sprite, Pow2(7 - c)) # 0} }
  IN [display |-> (acc.display \ cells) \cup (cells \ acc.display),
      collision |-> acc.collision \/ cells \cap acc.display # {}]

\* the inner loop of Dxyn: the 8 bits of one sprite byte, most significant
\* first, on display row y; acc holds the display and the collision flag so
\* far.  The 8 columns (vx + x_line) % 64 are distinct, so the 8 turns of
\* the loop touch distinct cells and are taken together.
DrawRow(acc, sprite, vx, y) ==
  LET cells == { (y * SCREEN_WIDTH) + ((vx + x_line) % SCREEN_WIDTH) :
                   x_line \in {c \in 0..7 : BitAnd(sprite, Pow2(7 - c)) # 0} }
  IN [display |-> (acc.display \ cells) \cup (cells \ acc.display),
      collision |-> acc.collision \/ cells \cap acc.display # {}]

RECURSIVE DrawLoop(_, _, _, _, _, _, _)
\* the outer loop of Dxyn from sprite row y_line on; reading the row's byte
\* panics when its address is out of range
DrawLoop(m, acc, start, vx, vy, n, y_line) ==
  IF y_line >= n
    THEN [display |-> acc.display, collision |-> acc.collision, panic |-> FALSE]
    ELSE IF start + y_line >= RAM_SIZE
      THEN [display |-> acc.display, collision |-> acc.collision, panic |-> TRUE]
      ELSE DrawLoop(m, DrawRow(acc, RamRead(m, start + y_line), vx,
                               (vy + y_line) % SCREEN_HEIGHT),
                    start, vx, vy, n, y_line + 1)

\* Dxyn
ExecDraw(s, x, y, n) ==
  LET d == DrawLoop(s.ram, [display |-> s.display, collision |-> FALSE],
                    s.r_i, Reg(s, x), Reg(s, y), n, 0)
      drawn == [s EXCEPT !.display = d.display]
  IN IF d.panic
       THEN {Out(drawn, "panic")}
       ELSE {Out(SetReg(drawn, 15, IF d.collision THEN 1 ELSE 0), "ok")}

\* Ex9E / ExA1: keys[Vx] is an index into 16 flags
ExecSkipKey(s, x, want) ==
  IF Reg(s, x) >= NUM_KEYS
    THEN {Out(s, "panic")}
    ELSE ExecSkipIf(s, s.keys[Reg(s, x)] = want)

\* Fx07
ExecGetDt(s, x) == {Out(SetReg(s, x, s.dt), "ok")}

\* ExecWaitKey without the outer loop: one scan of the flags, and the step
\* goes on with Vx = 0 when it finds none
ExecWaitKeyNoBlock(s, x) ==
  LET down == {i \in 0..NUM_KEYS - 1 : s.keys[i]}
  IN IF down = {}
       THEN {Out(SetReg(s, x, 0), "ok")}
       ELSE {Out(SetReg(s, x, CHOOSE i \in down : \A j \in down : i <= j), "ok")}

\* ExecWaitKey clearing the flag of the key it reports
ExecWaitKeyConsumes(s, x) ==
  LET down == {i \in 0..NUM_KEYS - 1 : s.keys[i]}
      k == CHOOSE i \in down : \A j \in down : i <= j
  IN IF down = {}
       THEN {Out(s, "wait")}
       ELSE {Out([SetReg(s, x, k) EXCEPT !.keys[k] = FALSE], "ok")}

\* Fx0A: the loop ends at the first (lowest) key whose flag is true; with no
\* flag true it never ends
ExecWaitKey(s, x) ==
  LET down == {i \in 0..NUM_KEYS - 1 : s.keys[i]}
  IN IF down = {}
       THEN {Out(s, "wait")}
       ELSE {Out(SetReg(s, x, CHOOSE i \in down : \A j \in down : i <= j), "ok")}

\* Fx15, Fx18
ExecSetDt(s, x) == {Out([s EXCEPT !.dt = Reg(s, x)], "ok")}
ExecSetSt(s, x) == {Out([s EXCEPT !.st = Reg(s, x)], "ok")}

\* Fx1E: r_i += Vx, a plain u16 addition
ExecAddI(s, x) ==
  IF s.r_i + Reg(s, x) > 65535
    THEN {Out([s EXCEPT !.r_i = (s.r_i + Reg(s, x)) % 65536], "ok"),
          Out(s, "panic")}
    ELSE {Out([s EXCEPT !.r_i = s.r_i + Reg(s, x)], "ok")}

\* Fx29
ExecFont(s, x) == {Out([s EXCEPT !.r_i = Reg(s, x) * 5], "ok")}

RECURSIVE StoreSeq(_, _, _)
\* ram.store(start + i - 1, vals[i]) for i = 1.. in order, up to the first
\* address that is out of range
StoreSeq(m, start, vals) ==
  IF vals = <<>> \/ start >= RAM_SIZE
    THEN [ram |-> m, panic |-> vals # <<>>]
    ELSE StoreSeq(RamStore(m, start, Head(vals)), start + 1, Tail(vals))

\* Fx33
ExecBcd(s, x) ==
  LET vx == Reg(s, x)
      r == StoreSeq(s.ram, s.r_i,
                    << (vx \div 100) % 10, (vx \div 10) % 10, vx % 10 >>)
  IN {Out([s EXCEPT !.ram = r.ram], IF r.panic THEN "panic" ELSE "ok")}

\* Fx55
ExecStoreRegs(s, x) ==
  LET r == StoreSeq(s.ram, s.r_i, [i \in 1..x + 1 |-> Reg(s, i - 1)])
  IN {Out([s EXCEPT !.ram = r.ram], IF r.panic THEN "panic" ELSE "ok")}

\* Fx65: regs[i] = ram.read(start + i) for i = 0..x, up to the first address
\* that is out of range
ExecLoadRegs(s, x) ==
  LET okIdx == {i \in 0..x : s.r_i + i < RAM_SIZE}
      loaded == [s EXCEPT !.regs = [i \in 0..NUM_REGS - 1 |->
                   IF i \in okIdx THEN RamRead(s.ram, s.r_i + i)
                                  ELSE s.regs[i]]]
  IN {Out(loaded, IF okIdx = 0..x THEN "ok" ELSE "panic")}

\* Emu::execute: dispatch on the nibbles (a, b, c, d) of the word w
Execute(s, w) ==
  LET t == Decode(w)
      a == t[1]
      x == t[2]
      y == t[3]
      d == t[4]
  IN CASE w = 0 -> {Out(s, "ok")}
       [] w = 224 -> ExecCls(s)
       [] w = 238 -> ExecRet(s)
       [] a = 1 -> ExecJump(s, w)
       [] a = 2 -> ExecCall(s, w)
       [] a = 3 -> ExecSkipIf(s, Reg(s, x) = Kk(w))
       [] a = 4 -> ExecSkipIf(s, Reg(s, x) # Kk(w))
       [] a = 5 /\ d = 0 -> ExecSkipIf(s, Reg(s, x) = Reg(s, y))
       [] a = 6 -> ExecLoadImm(s, x, w)
       [] a = 7 -> ExecAddImm(s, x, w)
       [] a = 8 /\ d = 0 -> ExecMov(s, x, y)
       [] a = 8 /\ d = 1 -> ExecOr(s, x, y)
       [] a = 8 /\ d = 2 -> ExecAnd(s, x, y)
       [] a = 8 /\ d = 3 -> ExecXor(s, x, y)
       [] a = 8 /\ d = 4 -> ExecAdd(s, x, y)
       [] a = 8 /\ d = 5 -> ExecSub(s, x, y)
       [] a = 8 /\ d = 6 -> ExecShr(s, x)
       [] a = 8 /\ d = 7 -> ExecSubN(s, x, y)
       [] a = 8 /\ d = 14 -> ExecShl(s, x)
       [] a = 9 /\ d = 0 -> ExecSkipIf(s, Reg(s, x) # Reg(s, y))
       [] a = 10 -> ExecLoadI(s, w)
       [] a = 11 -> ExecJumpV0(s, w)
       [] a = 12 -> ExecRand(s, x, w)
       [] a = 13 -> ExecDraw(s, x, y, d)
       [] a = 14 /\ y = 9 /\ d = 14 -> ExecSkipKey(s, x, TRUE)
       [] a = 14 /\ y = 10 /\ d = 1 -> ExecSkipKey(s, x, FALSE)
       [] a = 15 /\ y = 0 /\ d = 7 -> ExecGetDt(s, x)
       [] a = 15 /\ y = 0 /\ d = 10 -> ExecWaitKey(s, x)
       [] a = 15 /\ y = 1 /\ d = 5 -> ExecSetDt(s, x)
       [] a = 15 /\ y = 1 /\ d = 8 -> ExecSetSt(s, x)
       [] a = 15 /\ y = 1 /\ d = 14 -> ExecAddI(s, x)
       [] a = 15 /\ y = 2 /\ d = 9 -> ExecFont(s, x)
       [] a = 15 /\ y = 3 /\ d = 3 -> ExecBcd(s, x)
       [] a = 15 /\ y = 5 /\ d = 5 -> ExecStoreRegs(s, x)
       [] a = 15 /\ y = 6 /\ d = 5 -> ExecLoadRegs(s, x)
       [] OTHER -> {Out(s, "err")}

\* whether Emu::fetch panics: the alignment assert!, or a read out of range
FetchPanics(s) == s.pc % 2 # 0 \/ s.pc + 1 >= RAM_SIZE

\* the word Emu::fetch returns: the two bytes at pc, most significant first
FetchWord(s) == RamRead(s.ram, s.pc) * 256 + RamRead(s.ram, s.pc + 1)

\* Emu::fetch's effect on the state
Fetch(s) == JumpNext(s)

\* fetch followed by execute, as Emu::step runs them
StepOutcomes(s) ==
  IF FetchPanics(s) THEN {Out(s, "panic")}
  ELSE Execute(Fetch(s), FetchWord(s))

(***************************************************************************)
(* The state of the model as an Emu record, and back                       *)
(***************************************************************************)
Cur ==
  [pc |-> pc, sp |-> sp, r_i |-> r_i, regs |-> regs, stack |-> stack,
   ram |-> ram, keys |-> keys, display |-> display, dt |-> dt, st |-> st]

Becomes(s) ==
  /\ pc' = s.pc
  /\ sp' = s.sp
  /\ r_i' = s.r_i
  /\ regs' = s.regs
  /\ stack' = s.stack
  /\ ram' = s.ram
  /\ keys' = s.keys
  /\ display' = s.display
  /\ dt' = s.dt
  /\ st' = s.st

\* the word the next step fetches, and its nibbles
CurWord == FetchWord(Cur)
IsCall(w) == Decode(w)[1] = 2
IsRet(w) == w = 238
IsDraw(w) == Decode(w)[1] = 13

\* the n sprite bytes a draw reads at I
SpriteBytes(s, n) == [i \in 1..n |-> RamRead(s.ram, s.r_i + i - 1)]

\* the history variables after a step that fetched w in state s (before the
\* fetch) and ended in outcome o
History(s, w, o) ==
  /\ okSteps' = IF o.res = "ok" THEN okSteps + 1 ELSE okSteps
  /\ calls' = IF o.res # "ok" THEN calls
              ELSE IF IsCall(w) THEN Append(calls, [pc |-> s.pc + 2, sp |-> s.sp])
              ELSE IF IsRet(w) /\ calls # <<>> THEN SubSeq(calls, 1, Len(calls) - 1)
              ELSE calls
  /\ lastDraw' = IF o.res = "ok" /\ IsDraw(w)
                   THEN << [w |-> w, r_i |-> s.r_i,
                            vx |-> Reg(s, Decode(w)[2]),
                            vy |-> Reg(s, Decode(w)[3]),
                            bytes |-> SpriteBytes(s, Decode(w)[4]),
                            before |-> s.display,
                            after |-> o.s.display] >>
                   ELSE lastDraw

(***************************************************************************)
(* The operations of Emu                                                   *)
(***************************************************************************)
Init ==
  /\ pc = EmuDefault.pc
  /\ sp = EmuDefault.sp
  /\ r_i = EmuDefault.r_i
  /\ regs = EmuDefault.regs
  /\ stack = EmuDefault.stack
  /\ ram = EmuDefault.ram
  /\ keys = EmuDefault.keys
  /\ display = EmuDefault.display
  /\ dt = EmuDefault.dt
  /\ st = EmuDefault.st
  /\ steps = 0
  /\ quit = FALSE
  /\ ctl = "idle"
  /\ result = "none"
  /\ okSteps = 0
  /\ afterQuit = 0
  /\ calls = <<>>
  /\ lastDraw = <<>>
  /\ runAt = "none"

hist == <<okSteps, afterQuit, calls, lastDraw, runAt>>

\* Emu::load, called by the driver once, on the Emu it has just made (as
\* main and the tests do)
Load(rom) ==
  /\ ctl = "idle"
  /\ ram = RamNew
  /\ ram' = RamLoad(ram, rom)
  /\ UNCHANGED <<pc, sp, r_i, regs, stack, keys, display, dt, st, steps, quit,
                 ctl, result, hist>>

\* Emu::load, called again by the driver on an Emu that is already loaded;
\* nothing but the memory is touched, the pc and the registers stay
Reload(rom) ==
  /\ ctl = "idle"
  /\ ram # RamNew
  /\ ram' = RamLoad(ram, rom)
  /\ UNCHANGED <<pc, sp, r_i, regs, stack, keys, display, dt, st, steps, quit,
                 ctl, result, hist>>

\* Emu::key_down
KeyDown(key) ==
  /\ ctl = "idle"
  /\ keys' = [keys EXCEPT ![key] = TRUE]
  /\ UNCHANGED <<pc, sp, r_i, regs, stack, ram, display, dt, st, steps, quit,
                 ctl, result, hist>>

\* Emu::quit; the flag is behind its own Mutex, and the control thread sets
\* it whatever the thread that owns the Emu is doing
Quit ==
  /\ quit' = TRUE
  /\ UNCHANGED <<emu, steps, ctl, result, hist>>

\* Step with the counter incremented before execute's result is looked at
StepCountsAlways ==
  /\ ctl = "idle"
  /\ steps < MaxSteps
  /\ \E o \in StepOutcomes(Cur) :
       /\ Becomes(o.s)
       /\ steps' = IF o.res \in {"ok", "err"} THEN steps + 1 ELSE steps
       /\ ctl' = CASE o.res = "panic" -> "panicked"
                   [] o.res = "wait" -> "step_wait"
                   [] OTHER -> "idle"
       /\ result' = IF o.res \in {"ok", "err"} THEN o.res ELSE result
       /\ History(Cur, CurWord, o)
  /\ UNCHANGED <<quit, afterQuit, runAt>>

\* Emu::step, called by the driver
Step ==
  /\ ctl = "idle"
  /\ steps < MaxSteps
  /\ \E o \in StepOutcomes(Cur) :
       /\ Becomes(o.s)
       /\ steps' = IF o.res = "ok" THEN steps + 1 ELSE steps
       /\ ctl' = CASE o.res = "panic" -> "panicked"
                   [] o.res = "wait" -> "step_wait"
                   [] OTHER -> "idle"
       /\ result' = IF o.res \in {"ok", "err"} THEN o.res ELSE result
       /\ History(Cur, CurWord, o)
  /\ UNCHANGED <<quit, afterQuit, runAt>>

\* Emu::run is called
RunStart ==
  /\ ctl = "idle"
  /\ ctl' = "run_check"
  /\ runAt' = IF quit THEN "set" ELSE "unset"
  /\ UNCHANGED <<emu, steps, quit, result, okSteps, afterQuit, calls, lastDraw>>

\* RunCheck without the break: the loop never looks at the flag
RunCheckNoBreak ==
  /\ ctl = "run_check"
  /\ steps < MaxRunSteps
  /\ ctl' = "run_step"
  /\ UNCHANGED <<emu, steps, quit, result, hist>>

\* RunCheck with the test inverted: the loop breaks while the flag is unset
RunCheckInverted ==
  /\ ctl = "run_check"
  /\ IF ~quit
       THEN ctl' = "idle" /\ result' = "ok"
       ELSE steps < MaxRunSteps /\ ctl' = "run_step" /\ UNCHANGED result
  /\ UNCHANGED <<emu, steps, quit, hist>>

\* RunCheck taking the flag down as it breaks
RunCheckResets ==
  /\ ctl = "run_check"
  /\ IF quit
       THEN ctl' = "idle" /\ result' = "ok" /\ quit' = FALSE
       ELSE steps < MaxRunSteps /\ ctl' = "run_step" /\ UNCHANGED <<result, quit>>
  /\ UNCHANGED <<emu, steps, hist>>

\* Emu::run, the top of the loop: read the flag, break when it is set
RunCheck ==
  /\ ctl = "run_check"
  /\ IF quit
       THEN ctl' = "idle" /\ result' = "ok"
       ELSE steps < MaxRunSteps /\ ctl' = "run_step" /\ UNCHANGED result
  /\ UNCHANGED <<emu, steps, quit, hist>>

\* RunStep with the ? dropped: run() goes on after a step that returned Err
RunStepSwallowsErr ==
  /\ ctl = "run_step"
  /\ \E o \in StepOutcomes(Cur) :
       /\ Becomes(o.s)
       /\ steps' = IF o.res = "ok" THEN steps + 1 ELSE steps
       /\ ctl' = CASE o.res = "panic" -> "panicked"
                   [] o.res = "wait" -> "run_wait"
                   [] OTHER -> "run_check"
       /\ result' = result
       /\ afterQuit' = IF o.res = "ok" /\ quit THEN afterQuit + 1 ELSE afterQuit
       /\ History(Cur, CurWord, o)
  /\ UNCHANGED <<quit, runAt>>

\* Emu::run, self.step()?
RunStep ==
  /\ ctl = "run_step"
  /\ \E o \in StepOutcomes(Cur) :
       /\ Becomes(o.s)
       /\ steps' = IF o.res = "ok" THEN steps + 1 ELSE steps
       /\ ctl' = CASE o.res = "panic" -> "panicked"
                   [] o.res = "wait" -> "run_wait"
                   [] o.res = "err" -> "idle"
                   [] OTHER -> "run_check"
       /\ result' = IF o.res = "err" THEN "err" ELSE result
       /\ afterQuit' = IF o.res = "ok" /\ quit THEN afterQuit + 1 ELSE afterQuit
       /\ History(Cur, CurWord, o)
  /\ UNCHANGED <<quit, runAt>>

\* one more turn of Fx0A's loop: no key flag is set, and nothing changes
WaitSpin ==
  /\ ctl \in {"step_wait", "run_wait"}
  /\ \A k \in 0..NUM_KEYS - 1 : ~keys[k]
  /\ UNCHANGED vars

(***************************************************************************)
(* ROMs                                                                    *)
(***************************************************************************)
\* the word with nibbles a, b, c, d
Ins(a, b, c, d) == a * 4096 + b * 256 + c * 16 + d

\* a program as the bytes of a ROM file, each word most significant byte first
RomBytes(ws) == [i \in 1..2 * Len(ws) |->
                   IF i % 2 = 1 THEN ws[(i + 1) \div 2] \div 256
                                ELSE ws[i \div 2] % 256]

\* Cx FF for x = 0, 1, 15: V0, V1 and VF take any of RandomBytes
RandomRegs == << Ins(12, 0, 15, 15), Ins(12, 1, 15, 15), Ins(12, 15, 15, 15) >>

\* arithmetic and logic instructions on V0, V1, VF
AluOps ==
  { Ins(7, 0, 0, 1), Ins(7, 0, 15, 15), Ins(7, 15, 0, 1),
    Ins(8, 0, 1, 0), Ins(8, 0, 1, 1), Ins(8, 0, 1, 2), Ins(8, 0, 1, 3),
    Ins(8, 0, 1, 4), Ins(8, 15, 0, 4), Ins(8, 0, 15, 4),
    Ins(8, 0, 1, 5), Ins(8, 15, 0, 5), Ins(8, 0, 15, 5),
    Ins(8, 0, 1, 7), Ins(8, 15, 0, 7), Ins(8, 0, 15, 7),
    Ins(8, 0, 0, 6), Ins(8, 15, 0, 6),
    Ins(8, 0, 0, 14), Ins(8, 1, 0, 14), Ins(8, 15, 0, 14) }

AluProgs == { RandomRegs \o <<op>> : op \in AluOps }

\* STACK_SIZE nested calls, then as many returns: the word at START_ADDR
\* calls the first subroutine, the next word is a jump to itself, and each
\* subroutine but the last is a call of the next one followed by a return
DeepCallProg ==
  [i \in 1..2 * STACK_SIZE + 1 |->
     IF i = 2 THEN Ins(1, 2, 0, 2)
     ELSE IF i % 2 = 1 /\ i < 2 * STACK_SIZE + 1
       THEN 2 * 4096 + START_ADDR + 2 * (i + 1)
       ELSE 238]

\* calls, returns and jumps
CtlProgs ==
  { DeepCallProg, << Ins(2, 2, 0, 2), 238 >>,
    << Ins(2, 2, 0, 4), 0, 238 >>,
    << Ins(2, 2, 0, 2), Ins(2, 2, 0, 4), Ins(2, 2, 0, 6), 238 >>,
    << Ins(2, 2, 0, 0) >>,
    << 238 >>,
    << Ins(1, 2, 0, 0) >>,
    << Ins(1, 2, 0, 1) >>,
    << Ins(1, 15, 15, 14) >>,
    << Ins(12, 0, 15, 15), Ins(11, 2, 0, 0) >>,
    << Ins(5, 0, 0, 1) >>,
    << Ins(6, 0, 0, 1), Ins(15, 0, 0, 0) >>,
    << Ins(7, 0, 0, 1), Ins(3, 0, 0, 4), Ins(2, 2, 0, 0), 238 >>,
    << >> }

\* draws of the font glyphs
DrawProgs ==
  { << Ins(13, 0, 0, 5), Ins(13, 0, 0, 5) >>,
    << Ins(12, 0, 15, 15), Ins(12, 1, 15, 15), Ins(13, 0, 1, 5), Ins(13, 0, 1, 5) >>,
    << Ins(12, 0, 15, 15), Ins(13, 0, 0, 15), Ins(1, 2, 0, 2) >>,
    << Ins(13, 0, 0, 5), Ins(12, 0, 15, 15), Ins(13, 0, 0, 5), Ins(13, 0, 0, 5) >>,
    << Ins(13, 0, 0, 5), 224, Ins(13, 0, 0, 5), Ins(13, 0, 0, 5) >>,
    << Ins(10, 15, 15, 14), Ins(13, 0, 0, 5) >>,
    << Ins(13, 0, 15, 5), Ins(13, 0, 15, 5), Ins(13, 0, 15, 5) >> }

\* the skip instructions, on V0 and V1
SkipOps ==
  { Ins(3, 0, 0, 1), Ins(3, 0, 8, 0), Ins(4, 0, 0, 1), Ins(4, 1, 15, 15),
    Ins(5, 0, 1, 0), Ins(5, 1, 1, 0), Ins(9, 0, 1, 0), Ins(9, 0, 0, 0) }

SkipProgs ==
  { << Ins(12, 0, 15, 15), Ins(12, 1, 15, 15), op >> : op \in SkipOps }

\* the programs the driver steps through
Progs == AluProgs \cup CtlProgs \cup DrawProgs \cup SkipProgs

\* words that match no arm of execute's match, each next to one that does
DecodeProg ==
  << Ins(0, 1, 2, 3), Ins(5, 0, 0, 1), Ins(5, 0, 1, 0), Ins(8, 0, 1, 8),
     Ins(8, 0, 1, 0), Ins(9, 0, 1, 1), Ins(9, 0, 1, 0), Ins(14, 0, 0, 0),
     Ins(14, 0, 9, 14), Ins(15, 0, 0, 0), Ins(15, 0, 0, 7), Ins(0, 0, 14, 1) >>

\* the programs run() is started on, with the keypad and the flag in play
RunProgs ==
  { DecodeProg,
    << Ins(1, 2, 0, 0) >>,
    << Ins(15, 0, 0, 10), Ins(1, 2, 0, 0) >>,
    << Ins(7, 0, 0, 1), Ins(15, 1, 0, 10), Ins(5, 0, 0, 1) >>,
    << Ins(14, 0, 9, 14), Ins(7, 0, 0, 1), 238 >>,
    << Ins(6, 0, 0, 5), Ins(14, 0, 9, 14), Ins(14, 0, 10, 1), Ins(15, 1, 0, 10) >>,
    << >> }

\* the keys the driver presses
PressedKeys == {1, 5}

\* programs that write into the font range (0x04E, 0x04F, and 0x050 next to
\* it; 0x000..0x002) and into their own bytes at START_ADDR
LoadProgs ==
  { << Ins(6, 0, 10, 10), Ins(6, 1, 11, 11), Ins(6, 2, 12, 12),
       Ins(10, 0, 4, 14), Ins(15, 2, 5, 5), Ins(1, 2, 0, 0) >>,
    << Ins(15, 0, 3, 3), Ins(10, 2, 0, 0), Ins(15, 0, 3, 3) >>,
    << Ins(1, 2, 0, 0) >> }

(***************************************************************************)
(* Specifications                                                          *)
(***************************************************************************)
\* the driver of the tests: new, load, step, step, ...
Next ==
  \/ \E p \in Progs : Load(RomBytes(p))
  \/ Step

Spec == Init /\ [][Next]_vars

\* the driver that steps the Emu or runs it with run(), a control thread
\* calling quit()
NextRun ==
  \/ \E p \in RunProgs : Load(RomBytes(p))
  \/ \E k \in PressedKeys : KeyDown(k)
  \/ Quit
  \/ Step
  \/ RunStart
  \/ RunCheck
  \/ RunStep
  \/ WaitSpin

SpecRun == Init /\ [][NextRun]_vars

\* the thread inside run() keeps running
LiveSpec == SpecRun /\ WF_vars(RunCheck) /\ WF_vars(RunStep)

\* the driver that loads one ROM after another into the same Emu
NextLoad ==
  \/ \E p \in LoadProgs : Load(RomBytes(p))
  \/ \E p \in LoadProgs : Reload(RomBytes(p))
  \/ Step

SpecLoad == Init /\ [][NextLoad]_vars

(***************************************************************************)
(* Properties                                                              *)
(***************************************************************************)
\* a call of step() returned Ok in this transition
StepDone == steps' = steps + 1

\* a call of step() by the driver ran in this transition, however it ended
Stepped ==
  /\ ctl = "idle"
  /\ ctl' \in {"idle", "panicked", "step_wait"}
  /\ <<pc, steps, ctl>>' # <<pc, steps, ctl>>

\* the nibbles of the word the step of this transition fetched
OpA == Decode(CurWord)[1]
OpX == Decode(CurWord)[2]
OpY == Decode(CurWord)[3]
OpD == Decode(CurWord)[4]

\* run() is executing
InRun == ctl \in {"run_check", "run_step", "run_wait"}

\* C1: with run() on one thread and quit() on another, at most one step
\* completes after the flag has been set, and no step is in flight with the
\* flag set once one has completed.
C1_AtMostOneStepAfterQuit ==
  /\ afterQuit <= 1
  /\ ctl \in {"run_step", "run_wait"} => afterQuit = 0

\* C1 witness: the flag was set while a step was in flight, the step has
\* completed and run() has returned Ok.
C1_Witness == afterQuit = 1 /\ ctl = "idle" /\ result = "ok" /\ steps >= 2

\* C2 as stated: whenever the flag is set while run() is executing, run()
\* eventually ends, in every state, Fx0A with no key flag set included.
C2_AlwaysReturns == (quit /\ InRun) ~> (ctl \in {"idle", "panicked"})

\* C2 amended: whenever the flag is set while run() is about to read it or
\* about to call step, run() eventually returns or panics, unless the step
\* is an Fx0A executed with no key flag set; a run() inside that Fx0A never
\* leaves it.
C2_ReturnsUnlessWaiting ==
  /\ (quit /\ ctl \in {"run_check", "run_step"})
       ~> (ctl \in {"idle", "panicked", "run_wait"})
  /\ [][ctl = "run_wait" => ctl' = "run_wait"]_vars

\* C2 witness: run() has returned Ok after a step that completed with the
\* flag already set, having executed an Fx0A that found a key down.
C2_Witness ==
  /\ quit /\ ctl = "idle" /\ result = "ok" /\ afterQuit = 1
  /\ \E k \in 0..NUM_KEYS - 1 : keys[k]
  /\ RamRead(ram, START_ADDR) = 240

\* C3: get_steps() is the number of step() calls that returned Ok: the
\* counter moves only by +1, and exactly when a call returns Ok.
C3_StepsCountOkCalls ==
  /\ steps = okSteps
  /\ result = "none" => steps = 0

\* C3 witness: a call has returned Err after calls that returned Ok.
C3_Witness == result = "err" /\ steps = 1 /\ okSteps = 1

\* C4: 8x_E sets V15 to the original bit 7 of Vx and Vx to (Vx << 1) mod 256.
C4_ShlFlag ==
  [][(StepDone /\ OpA = 8 /\ OpD = 14) =>
       /\ regs'[15] = (IF regs[OpX] >= 128 THEN 1 ELSE 0)
       /\ OpX # 15 => regs'[OpX] = (regs[OpX] * 2) % 256]_vars

\* C5: 8xy4 leaves V15 = 1 if Vx + Vy > 255 and 0 otherwise, for every x and
\* y, and Vx = (Vx + Vy) mod 256 for x # 15.
C5_AddCarry ==
  [][(StepDone /\ OpA = 8 /\ OpD = 4) =>
       /\ regs'[15] = (IF regs[OpX] + regs[OpY] > 255 THEN 1 ELSE 0)
       /\ OpX # 15 => regs'[OpX] = (regs[OpX] + regs[OpY]) % 256]_vars

\* C6: 8xy5 leaves V15 = 0 if Vx < Vy and 1 otherwise, 8xy7 leaves V15 = 0
\* if Vy < Vx and 1 otherwise, for every x and y, and for x # 15 Vx holds
\* the difference mod 256.
C6_SubBorrow ==
  [][/\ (StepDone /\ OpA = 8 /\ OpD = 5) =>
          /\ regs'[15] = (IF regs[OpX] < regs[OpY] THEN 0 ELSE 1)
          /\ OpX # 15 => regs'[OpX] = (regs[OpX] - regs[OpY] + 256) % 256
     /\ (StepDone /\ OpA = 8 /\ OpD = 7) =>
          /\ regs'[15] = (IF regs[OpY] < regs[OpX] THEN 0 ELSE 1)
          /\ OpX # 15 => regs'[OpX] = (regs[OpY] - regs[OpX] + 256) % 256]_vars

\* C7: a step executing 7xkk completes without error, sets Vx to
\* (Vx + kk) mod 256 and leaves V15 as it was when x # 15.
C7_AddImmWraps ==
  [][(Stepped /\ OpA = 7) =>
       /\ StepDone
       /\ regs'[OpX] = (regs[OpX] + Kk(CurWord)) % 256
       /\ OpX # 15 => regs'[15] = regs[15]]_vars

\* C8: a return that completes restores the pc and the sp that the matching
\* call (the latest one not yet returned from) was dispatched with: calls
\* and returns pair up last in, first out.
C8_CallReturnRoundTrip ==
  [][(StepDone /\ IsRet(CurWord)) =>
       /\ calls # <<>>
       /\ pc' = calls[Len(calls)].pc
       /\ sp' = calls[Len(calls)].sp]_vars

\* C8 witness: 16 nested calls have filled the stack and 16 returns have
\* unwound it, back to the address after the first call.
C8_Witness ==
  /\ ctl = "idle" /\ sp = 0 /\ calls = <<>> /\ steps = 2 * STACK_SIZE
  /\ stack[STACK_SIZE - 1] # 0
  /\ pc = stack[0] /\ pc = START_ADDR + 2

\* the last draw was this same draw: the same word, I, Vx, Vy and sprite
\* bytes, and the display is as that draw left it
SameDrawAgain ==
  /\ lastDraw # <<>>
  /\ lastDraw[1].w = CurWord
  /\ lastDraw[1].r_i = r_i
  /\ lastDraw[1].vx = regs[OpX]
  /\ lastDraw[1].vy = regs[OpY]
  /\ lastDraw[1].bytes = SpriteBytes(Cur, OpD)
  /\ lastDraw[1].after = display

\* C9: drawing the same sprite a second time at the same coordinates gives
\* back the display as it was before the first draw, and sets V15 = 1 when
\* the first draw turned at least one cell on.
C9_DrawTwiceRestores ==
  [][(StepDone /\ IsDraw(CurWord) /\ SameDrawAgain) =>
       /\ display' = lastDraw[1].before
       /\ (lastDraw[1].after \ lastDraw[1].before # {}) => regs'[15] = 1]_vars

\* C9 witness: a draw has just wiped a display that was not empty, with a
\* collision: the second of two identical draws on a clear display, here
\* wrapped around both edges.
C9_Witness ==
  /\ lastDraw # <<>>
  /\ lastDraw[1].before # {} /\ lastDraw[1].after = {}
  /\ display = {} /\ regs[15] = 1
  /\ lastDraw[1].vx = 255 /\ lastDraw[1].vy = 255
  /\ 2047 \in lastDraw[1].before /\ 2 \in lastDraw[1].before

\* C10: the pc is even in every reachable state, and fetch's alignment
\* assertion never fails.
C10_PcEven == pc % 2 = 0

\* C11: the stack pointer stays within 0..16 in every reachable state; the
\* slots 2nnn writes (stack[sp]) and 00EE reads (stack[sp - 1]) are then
\* slots 0..15.
C11_SpInRange == 0 <= sp /\ sp <= STACK_SIZE

\* C12: a step that executes 00EE with the stack pointer at 0 returns an
\* error to its caller, with the stack pointer still 0 and no stack slot
\* loaded into the pc (the pc is where fetch left it).
C12_PopAtZeroIsErr ==
  [][(Stepped /\ ~FetchPanics(Cur) /\ IsRet(CurWord) /\ sp = 0) =>
       /\ ctl' = "idle" /\ result' = "err"
       /\ sp' = 0
       /\ pc' = pc + 2]_vars

\* the step of this transition can only have panicked on a memory index: its
\* fetch was aligned, and either the fetch reads past the end of memory or
\* the word is one of the opcodes that address memory through I
AddressesMemory ==
  /\ pc % 2 = 0
  /\ \/ pc + 1 >= RAM_SIZE
     \/ OpA = 13
     \/ OpA = 15 /\ <<OpY, OpD>> \in {<<3, 3>>, <<5, 5>>, <<6, 5>>}

\* C13: no step hands Ram::read or Ram::store an address of 4096 or more:
\* neither fetch (pc, pc + 1) nor Dxyn, Fx33, Fx55, Fx65 (I + offset) ever
\* runs into the index-out-of-range failure.
C13_NoOutOfRangeAccess ==
  [][(Stepped /\ AddressesMemory) => ctl' # "panicked"]_vars

\* the call of step() that run() had pending was made in this transition
RunStepped == ctl = "run_step" /\ ctl' # "run_step"

\* the arms of execute's match, as patterns over the nibbles of w
Recognized(w) ==
  LET a == Decode(w)[1]
      c == Decode(w)[3]
      d == Decode(w)[4]
  IN \/ w \in {0, 224, 238}
     \/ a \in {1, 2, 3, 4, 6, 7, 10, 11, 12, 13}
     \/ a \in {5, 9} /\ d = 0
     \/ a = 8 /\ d \in {0, 1, 2, 3, 4, 5, 6, 7, 14}
     \/ a = 14 /\ <<c, d>> \in {<<9, 14>>, <<10, 1>>}
     \/ a = 15 /\ <<c, d>> \in {<<0, 7>>, <<0, 10>>, <<1, 5>>, <<1, 8>>,
                                <<1, 14>>, <<2, 9>>, <<3, 3>>, <<5, 5>>,
                                <<6, 5>>}

\* C14: a call of step() returns Err exactly when the word it fetched
\* matches no pattern of the dispatch table, and counts no step then; when
\* the call was made by run(), run() returns that Err without another step.
C14_ErrIffUnrecognized ==
  [][/\ Stepped =>
          ((ctl' = "idle" /\ result' = "err" /\ steps' = steps)
             <=> (~FetchPanics(Cur) /\ ~Recognized(CurWord)))
     /\ RunStepped =>
          ((ctl' = "idle" /\ result' = "err" /\ steps' = steps)
             <=> (~FetchPanics(Cur) /\ ~Recognized(CurWord)))]_vars

\* C14 witness: the word Fx00 has just been refused, after steps that ran
\* 5xy0, 8xy0, 9xy0 and Ex9E and refusals of 0x0123, 5xy1, 8xy8, 9xy1, Ex00.
C14_Witness ==
  /\ ctl = "idle" /\ result = "err" /\ steps = 4
  /\ pc = START_ADDR + 20
  /\ FetchWord([Cur EXCEPT !.pc = pc - 2]) = Ins(15, 0, 0, 0)

\* some key flag is true
AnyKeyDown == \E k \in 0..NUM_KEYS - 1 : keys[k]

\* the thread is inside Fx0A's loop
Waiting == ctl \in {"step_wait", "run_wait"}

IsWaitKey(w) == Decode(w)[1] = 15 /\ Decode(w)[3] = 0 /\ Decode(w)[4] = 10

\* C15: a step that executes Fx0A completes only with a key flag true, and
\* then Vx is the index of a key whose flag is true; with all 16 flags false
\* it enters its loop and stays there: the call does not return, nothing
\* else executes and the step counter does not move.
C15_WaitKeyBlocks ==
  /\ [](Waiting => ~AnyKeyDown)
  /\ [][((Stepped \/ RunStepped) /\ ~FetchPanics(Cur) /\ IsWaitKey(CurWord)) =>
          IF AnyKeyDown
            THEN /\ StepDone
                 /\ ctl' \in {"idle", "run_check"}
                 /\ regs'[OpX] \in 0..NUM_KEYS - 1
                 /\ keys[regs'[OpX]]
            ELSE /\ Waiting'
                 /\ steps' = steps]_vars
  /\ [][Waiting => (Waiting' /\ UNCHANGED <<emu, steps, result>>)]_vars

\* C15 witness: with key 5 the only key down, F00A at START_ADDR has
\* completed with V0 = 5.
C15_Witness ==
  /\ ctl = "idle" /\ steps = 1 /\ pc = START_ADDR + 2
  /\ FetchWord([Cur EXCEPT !.pc = START_ADDR]) = Ins(15, 0, 0, 10)
  /\ keys[5] /\ ~keys[1] /\ regs[0] = 5

\* the word the step of this transition fetched is 3xkk, 4xkk, 5xy0 or 9xy0
IsSkip == OpA \in {3, 4} \/ (OpA \in {5, 9} /\ OpD = 0)

\* the condition of that skip instruction, on the registers before the step
SkipCond ==
  CASE OpA = 3 -> regs[OpX] = Kk(CurWord)
    [] OpA = 4 -> regs[OpX] # Kk(CurWord)
    [] OpA = 5 -> regs[OpX] = regs[OpY]
    [] OTHER -> regs[OpX] # regs[OpY]

\* C16: a step executing 3xkk, 4xkk, 5xy0 or 9xy0 completes, moves the pc by
\* 4 when the instruction's condition holds and by 2 when it does not, and
\* changes no register, memory cell, stack entry or display cell.
C16_SkipAdvance ==
  [][(Stepped /\ ~FetchPanics(Cur) /\ IsSkip) =>
       /\ StepDone
       /\ pc' = pc + (IF SkipCond THEN 4 ELSE 2)
       /\ UNCHANGED <<regs, r_i, sp, stack, ram, display>>]_vars

\* C16 witness: 5xy0 at START_ADDR + 4 has skipped with V0 = V1 = 5: three
\* steps have moved the pc by 8.
C16_Witness ==
  /\ ctl = "idle" /\ steps = 3 /\ pc = START_ADDR + 8
  /\ FetchWord([Cur EXCEPT !.pc = START_ADDR + 4]) = Ins(5, 0, 1, 0)
  /\ regs[0] = 5 /\ regs[1] = 5

\* memory m holds the font at 0x000..0x04F
FontInstalled(m) == \A i \in 1..Len(FONT_SET) : RamRead(m, i - 1) = FONT_SET[i]

\* memory m holds the bytes of rom, in order, from START_ADDR on
RomInstalled(m, rom) ==
  \A i \in 1..Len(rom) : RamRead(m, START_ADDR + i - 1) = rom[i]

\* C17: after load(rom) the memory holds the font at 0x000..0x04F and the
\* ROM's bytes from 0x200 on, whatever it held before: on a new Emu, and on
\* one whose program has written over the font or over itself.
C17_LoadInstalls ==
  [][\A p \in LoadProgs :
       (Load(RomBytes(p)) \/ Reload(RomBytes(p))) =>
         /\ FontInstalled(ram')
         /\ RomInstalled(ram', RomBytes(p))]_vars

\* C17 witness: a program stored V0..V2 at 0x04E..0x050, over the last two
\* bytes of the font; a ROM was then loaded: the font is back, the byte at
\* 0x050 is the one the program stored, and the ROM is another one.
C17_Witness ==
  /\ RamRead(ram, 80) = 204
  /\ FontInstalled(ram)
  /\ RamRead(ram, START_ADDR) = 240
  /\ steps >= 5

\* the cells the sprite of the draw of this transition covers with a set
\* bit: row r, column c of the sprite is bit 7 - c of the byte at I + r and
\* lands on cell ((Vx + c) mod 64, (Vy + r) mod 32)
SpriteCells ==
  { (((regs[OpY] + rc[1]) % SCREEN_HEIGHT) * SCREEN_WIDTH)
      + ((regs[OpX] + rc[2]) % SCREEN_WIDTH) :
    rc \in { q \in (0..OpD - 1) \X (0..7) :
               (RamRead(ram, r_i + q[1]) \div (2 ^ (7 - q[2]))) % 2 = 1 } }

\* C18: a draw that completes flips exactly the cells its sprite covers with
\* a set bit, wrapped around both edges, and leaves every other cell, I and
\* the memory as they were; V15 is then 1 if one of the flipped cells was
\* set before the draw and 0 otherwise.
C18_DrawComposites ==
  [][(StepDone /\ ~FetchPanics(Cur) /\ IsDraw(CurWord)) =>
       /\ display' = (display \ SpriteCells) \cup (SpriteCells \ display)
       /\ r_i' = r_i
       /\ ram' = ram
       /\ regs'[15] = (IF SpriteCells \cap display # {} THEN 1 ELSE 0)]_vars

\* C18 witness: a glyph drawn at (255, 255), that is from cell (63, 31) on
\* around both edges, over a glyph at (0, 0): some cells collided, others
\* were turned on, the corner cell (63, 31) among them, and cell (2, 0) was
\* turned off.
C18_Witness ==
  /\ lastDraw # <<>>
  /\ lastDraw[1].vx = 255 /\ lastDraw[1].vy = 255
  /\ lastDraw[1].before # {}
  /\ display = lastDraw[1].after
  /\ regs[15] = 1
  /\ 2047 \in display /\ 2047 \notin lastDraw[1].before
  /\ 2 \in lastDraw[1].before /\ 2 \notin display

\* C19: a key flag that is true stays true: no operation of Emu (load,
\* key_down, quit, step, run, whatever the opcode) clears one.
C19_KeysSticky ==
  [][\A k \in 0..NUM_KEYS - 1 : keys[k] => keys'[k]]_vars

\* C19 witness: keys 1 and 5 are down after Ex9E has tested key 5 (and
\* skipped) and Fx0A has reported key 1.
C19_Witness ==
  /\ keys[1] /\ keys[5]
  /\ ctl = "idle" /\ steps = 3 /\ pc = START_ADDR + 8
  /\ FetchWord([Cur EXCEPT !.pc = START_ADDR + 2]) = Ins(14, 0, 9, 14)
  /\ regs[0] = 5 /\ regs[1] = 1

\* C20: the flag, once set, stays set, and a run() called with the flag set
\* returns Ok from its first look at the flag: it never has a step in
\* flight, and the VM state and the step counter are as they were.
C20_QuitIsFinal ==
  /\ [][quit => quit']_vars
  /\ []((runAt = "set" /\ InRun) => ctl = "run_check")
  /\ [][(runAt = "set" /\ ctl = "run_check" /\ ctl' # "run_check") =>
          /\ ctl' = "idle" /\ result' = "ok"
          /\ UNCHANGED <<emu, steps>>]_vars

\* C20 witness: run() executed two steps, quit() was called during the
\* second, run() returned; a run() called after that has returned Ok.
C20_Witness ==
  /\ quit /\ runAt = "set" /\ ctl = "idle" /\ result = "ok"
  /\ steps = 2 /\ afterQuit = 1

====
